---- MODULE Spec2Model ----
(***************************************************************************)
(* The hourly delta / aggregation pipeline of Hourly_Campaign_Dashboard.py *)
(* as a state machine: one action per block of the script, executed top    *)
(* to bottom, plus the rerun of the script on a changed campaign source.   *)
(*                                                                         *)
(* Conventions.                                                            *)
(*  - A DataFrame is a record [columns, rows]; a row is a function from    *)
(*    column name to cell.                                                 *)
(*  - A nullable number (pandas NaN / a value) is the empty sequence or a  *)
(*    one-element sequence.                                                *)
(*  - A timestamp is a number of hours since 2024-01-01 00:00; a date is   *)
(*    the day of the month of 2024-01; str(date) is its two-digit,         *)
(*    zero-padded day (the "2024-01-" prefix is common to all dates).      *)
(*  - A raw cell of the sales CSV is [ok, v]: ok says whether the text     *)
(*    parses as a date / a number, v is the parsed value.                  *)
(***************************************************************************)
EXTENDS Integers, Sequences, FiniteSets, TLC

\* ------------------------------------------------------------------ bounds
MaxRows == 2
MaxSalesRows == 2
MaxVal == 2
MaxCols == 3

\* ------------------------------------------------------- generic helpers
Range(s) == {s[i] : i \in 1..Len(s)}

RECURSIVE SeqSum(_)
SeqSum(s) == IF s = <<>> THEN 0 ELSE Head(s) + SeqSum(Tail(s))

RECURSIVE SetSum(_, _)
\* sum of f[x] over the elements x of S
SetSum(f, S) ==
    IF S = {} THEN 0
    ELSE LET x == CHOOSE y \in S : TRUE IN f[x] + SetSum(f, S \ {x})

SetMax(S) == CHOOSE x \in S : \A y \in S : y <= x

SeqsUpTo(S, n) == UNION {[1..k -> S] : k \in 0..n}

\* sequences over S of length at most n without a repeated element
DistinctSeqs(S, n) ==
    {s \in SeqsUpTo(S, n) : \A i, j \in 1..Len(s) : i # j => s[i] # s[j]}

NaN == <<>>
Num(n) == <<n>>

\* --------------------------------------------------------------- strings
UpperLetters == <<"A","B","C","D","E","F","G","H","I","J","K","L","M",
                  "N","O","P","Q","R","S","T","U","V","W","X","Y","Z">>
LowerLetters == <<"a","b","c","d","e","f","g","h","i","j","k","l","m",
                  "n","o","p","q","r","s","t","u","v","w","x","y","z">>

\* the characters of the column names the model uses
Chars(name) ==
    CASE name = "timestamp"     -> <<"t","i","m","e","s","t","a","m","p">>
      [] name = "date"          -> <<"d","a","t","e">>
      [] name = "hour_index"    -> <<"h","o","u","r","_","i","n","d","e","x">>
      [] name = "Campaign Name" -> <<"C","a","m","p","a","i","g","n"," ","N","a","m","e">>
      [] name = "CAMPAIGN ID"   -> <<"C","A","M","P","A","I","G","N"," ","I","D">>
      [] name = "Camp"          -> <<"C","a","m","p">>
      [] name = "Spend"         -> <<"S","p","e","n","d">>
      [] name = "Clicks"        -> <<"C","l","i","c","k","s">>
      [] name = "ACOS"          -> <<"A","C","O","S">>
      [] name = "Budget"        -> <<"B","u","d","g","e","t">>
      [] name = "campaign"      -> <<"c","a","m","p","a","i","g","n">>

\* str.lower()
lower(s) ==
    [i \in 1..Len(s) |->
        IF \E k \in 1..26 : UpperLetters[k] = s[i]
        THEN LowerLetters[CHOOSE k \in 1..26 : UpperLetters[k] = s[i]]
        ELSE s[i]]

\* Python's  needle in s  on strings
Contains(needle, s) ==
    \E i \in 1..(Len(s) - Len(needle) + 1) :
        SubSeq(s, i, i + Len(needle) - 1) = needle

\* ---------------------------------------------------------------- inputs
\* campaign identifiers, listed in ascending (lexicographic) order
CampaignPool == <<"A", "B">>

CampRank(c) == CHOOSE i \in 1..Len(CampaignPool) : CampaignPool[i] = c

\* two hours of 2024-01-01 and the first hour of 2024-01-02
Timestamps == {0, 1, 24}

MetricValues == 1..MaxVal

Row3(t, c, v) == ("timestamp" :> t) @@ ("Campaign Name" :> c) @@ ("Spend" :> v)

\* campaign CSVs with columns timestamp, Campaign Name, Spend: one campaign
\* over two days
DeltaSources ==
    {[columns |-> <<"timestamp", "Campaign Name", "Spend">>, rows |-> rs] :
        rs \in SeqsUpTo({Row3(t, "A", v) : t \in Timestamps, v \in MetricValues}, MaxRows)}

\* the daily budget of each campaign
BudgetOf(c) == IF c = "A" THEN 2 ELSE 1

\* campaign CSVs that also carry a Budget column: two campaigns on one day
BudgetSources ==
    {[columns |-> <<"timestamp", "Campaign Name", "Spend", "Budget">>, rows |-> rs] :
        rs \in SeqsUpTo({Row3(t, c, v) @@ ("Budget" :> BudgetOf(c)) :
                            t \in {0, 1}, c \in Range(CampaignPool), v \in {1, 2}}, MaxRows)}

ColumnPool == {"Campaign Name", "CAMPAIGN ID", "Camp", "Spend", "Clicks", "ACOS", "Budget"}

\* the k-th row of a campaign CSV with the given columns
SchemaRow(cols, k) ==
    [c \in Range(cols) |->
        CASE c = "timestamp" -> k - 1
          [] c = "Campaign Name" -> CampaignPool[k]
          [] c = "CAMPAIGN ID" -> CampaignPool[3 - k]
          [] c = "Camp" -> CampaignPool[1]
          [] OTHER -> k]

\* campaign CSVs with every column list over the pool, two rows each
SchemaSources ==
    {[columns |-> <<"timestamp">> \o cs,
      rows |-> <<SchemaRow(<<"timestamp">> \o cs, 1), SchemaRow(<<"timestamp">> \o cs, 2)>>] :
        cs \in DistinctSeqs(ColumnPool, MaxCols)}

\* one campaign, two consecutive hours of one day
FixedCampaign ==
    [columns |-> <<"timestamp", "Campaign Name", "Spend">>,
     rows |-> <<Row3(0, "A", 1), Row3(1, "A", 2)>>]

Cells(S) == {[ok |-> TRUE, v |-> x] : x \in S} \cup {[ok |-> FALSE, v |-> 0]}

SalesColumns == {"Date", "Hour", "SP"}

SalesRow(d, h, s) == ("Date" :> d) @@ ("Hour" :> h) @@ ("SP" :> s)

\* sales CSVs with all three columns and any cell contents
SalesFeeds ==
    {[columns |-> SalesColumns, rows |-> rs] :
        rs \in SeqsUpTo({SalesRow(d, h, s) : d \in Cells({1, 2}),
                                            h \in Cells({0, 1}),
                                            s \in Cells({1})}, MaxSalesRows)}

GoodSalesRow == SalesRow([ok |-> TRUE, v |-> 1], [ok |-> TRUE, v |-> 0], [ok |-> TRUE, v |-> 1])

\* sales CSVs with any subset of the three columns, one well-formed row
SalesSchemaFeeds ==
    {[columns |-> cs, rows |-> <<[c \in cs |-> GoodSalesRow[c]]>>] : cs \in SUBSET SalesColumns}

Source(af, ok, sales, campaign) ==
    [amazon_file |-> af, sales_fetch_ok |-> ok, sales |-> sales, campaign |-> campaign]

\* what the two file uploaders / the two URLs deliver in one session
Inputs ==
    {Source(TRUE, TRUE, [columns |-> SalesColumns, rows |-> <<GoodSalesRow>>], c) :
        c \in DeltaSources \cup BudgetSources \cup SchemaSources}
    \cup {Source(TRUE, TRUE, f, FixedCampaign) : f \in SalesFeeds}
    \cup {Source(af, ok, f, FixedCampaign) :
            af \in BOOLEAN, ok \in BOOLEAN, f \in SalesSchemaFeeds}

\* ----------------------------------------------------------------- state
VARIABLES
    pc,                 \* the block of the script that runs next
    exception,          \* the exception that stopped the script, or "none"
    src,                \* the content of the sources
    amazon_df, amazon_hourly,
    df, available_metrics, campaign_column,
    selected_campaigns, selected_dates, selected_metrics,
    df_filtered, combined_hourly, df_grouped, delta_table,
    rerun,              \* the script is running again on a changed source
    shown               \* the tables the previous run displayed

vars == <<pc, exception, src, amazon_df, amazon_hourly, df, available_metrics,
          campaign_column, selected_campaigns, selected_dates, selected_metrics,
          df_filtered, combined_hourly, df_grouped, delta_table, rerun, shown>>

None == [none |-> TRUE]
Some(x) == [none |-> FALSE, value |-> x]

NoFrame == [columns |-> <<>>, rows |-> <<>>]

Tables == <<df_filtered, combined_hourly, df_grouped, delta_table>>

Init ==
    /\ src \in Inputs
    /\ pc = "load_sales"
    /\ exception = "none"
    /\ amazon_df = None
    /\ amazon_hourly = None
    /\ df = NoFrame
    /\ available_metrics = <<>>
    /\ campaign_column = None
    /\ selected_campaigns = {}
    /\ selected_dates = {}
    /\ selected_metrics = {}
    /\ df_filtered = NoFrame
    /\ combined_hourly = <<>>
    /\ df_grouped = <<>>
    /\ delta_table = <<>>
    /\ rerun = FALSE
    /\ shown = <<>>

Raise(e) ==
    /\ pc' = "aborted"
    /\ exception' = e

Goto(l) ==
    /\ pc' = l
    /\ exception' = exception

\* ------------------------------------------------------------ load blocks
\* lines 26-31. A cell keeps its text until line 74 converts it: read_csv
\* leaves a Date column with an unparsable value as text.
LoadSales ==
    /\ pc = "load_sales"
    /\ IF src.amazon_file
       THEN /\ amazon_df' = Some(src.sales)
            /\ Goto("load_campaign")
       ELSE IF ~src.sales_fetch_ok
       THEN /\ Raise("URLError")
            /\ UNCHANGED amazon_df
       ELSE IF "Date" \notin src.sales.columns     \* parse_dates=['Date']
       THEN /\ Raise("ValueError")
            /\ UNCHANGED amazon_df
       ELSE /\ amazon_df' = Some(src.sales)
            /\ Goto("load_campaign")
    /\ amazon_hourly' = None
    /\ UNCHANGED <<src, df, available_metrics, campaign_column, selected_campaigns,
                   selected_dates, selected_metrics, df_filtered, combined_hourly,
                   df_grouped, delta_table, rerun, shown>>

\* .dt.date and .dt.hour of a timestamp
dt_date(ts) == 1 + (ts \div 24)
dt_hour(ts) == ts % 24

\* lines 41-43
TimeFeatures(csv) ==
    [columns |-> csv.columns \o <<"date", "hour_index">>,
     rows |-> [i \in 1..Len(csv.rows) |->
                  csv.rows[i] @@ ("date" :> dt_date(csv.rows[i]["timestamp"]))
                              @@ ("hour_index" :> dt_hour(csv.rows[i]["timestamp"]))]]

\* lines 35-43
LoadCampaign ==
    /\ pc = "load_campaign"
    /\ df' = TimeFeatures(src.campaign)
    /\ Goto("resolve")
    /\ UNCHANGED <<src, amazon_df, amazon_hourly, available_metrics, campaign_column,
                   selected_campaigns, selected_dates, selected_metrics, df_filtered,
                   combined_hourly, df_grouped, delta_table, rerun, shown>>

\* lines 46-58: the keys of metric_descriptions, in insertion order
metric_descriptions ==
    <<"Spend", "Impressions", "Clicks", "CTR", "Orders", "Sales",
      "ROAS", "CPC", "NTB orders", "vCTR">>

\* the whole catalog, whatever the columns
available_metrics_all(columns) == metric_descriptions

\* line 60
available_metrics_of(columns) ==
    SelectSeq(metric_descriptions, LAMBDA m : m \in Range(columns))

\* line 61: the list comprehension
campaign_matches(columns) ==
    SelectSeq(columns, LAMBDA col : Contains(Chars("campaign"), lower(Chars(col))))

\* [...][-1]: the last match
campaign_column_last(columns) == campaign_matches(columns)[Len(campaign_matches(columns))]

\* line 61: [...][0]
campaign_column_of(columns) == campaign_matches(columns)[1]

\* lines 60-61
ResolveSchema ==
    /\ pc = "resolve"
    /\ available_metrics' = available_metrics_of(df.columns)
    /\ IF campaign_matches(df.columns) = <<>>
       THEN /\ Raise("IndexError")
            /\ UNCHANGED campaign_column
       ELSE /\ campaign_column' = Some(campaign_column_of(df.columns))
            /\ Goto("filters")
    /\ UNCHANGED <<src, amazon_df, amazon_hourly, df, selected_campaigns,
                   selected_dates, selected_metrics, df_filtered, combined_hourly,
                   df_grouped, delta_table, rerun, shown>>

\* Series.unique()
unique(frame, col) == {frame.rows[i][col] : i \in 1..Len(frame.rows)}

\* lines 65-67: the three multiselects; a default that is not among the
\* options makes the widget raise. The user keeps at least one metric selected.
SelectFilters ==
    /\ pc = "filters"
    /\ IF "Spend" \notin Range(available_metrics)
       THEN /\ selected_campaigns' = unique(df, campaign_column.value)
            /\ selected_dates' = unique(df, "date")
            /\ UNCHANGED selected_metrics
            /\ Raise("StreamlitAPIException")
       ELSE /\ selected_campaigns' \in SUBSET unique(df, campaign_column.value)
            /\ selected_dates' \in SUBSET unique(df, "date")
            /\ selected_metrics' \in SUBSET Range(available_metrics) \ {{}}
            /\ Goto("parse_sales")
    /\ UNCHANGED <<src, amazon_df, amazon_hourly, df, available_metrics,
                   campaign_column, df_filtered, combined_hourly, df_grouped,
                   delta_table, rerun, shown>>

\* ------------------------------------------------------ pandas operators
\* lexicographic order on integer tuples of one length
TupleLess(a, b) ==
    \E i \in 1..Len(a) : a[i] < b[i] /\ \A j \in 1..(i - 1) : a[j] = b[j]

RECURSIVE SortedSeq(_)
\* the tuples of K in ascending order
SortedSeq(K) ==
    IF K = {} THEN <<>>
    ELSE LET m == CHOOSE x \in K : \A y \in K \ {x} : TupleLess(x, y)
         IN <<m>> \o SortedSeq(K \ {m})

RECURSIVE Concat(_)
Concat(ss) == IF ss = <<>> THEN <<>> ELSE Head(ss) \o Concat(Tail(ss))

\* DataFrame.sort_values: a stable sort of rows by their integer-tuple keys
sort_values(rows, keys) ==
    LET order == SortedSeq({keys[i] \o <<i>> : i \in 1..Len(rows)})
    IN [n \in 1..Len(rows) |-> rows[order[n][Len(order[n])]]]

\* the sum of a column over the rows of a group, given as a boolean mask
\* (NaN does not occur in the campaign metrics)
ColSum(rows, col, mask) ==
    LET sel == SelectSeq([i \in 1..Len(rows) |-> <<mask[i], rows[i][col]>>],
                         LAMBDA e : e[1])
    IN SeqSum([i \in 1..Len(sel) |-> sel[i][2]])

\* pd.to_datetime(..., dayfirst=True) of one cell; errors='raise'
date_parses(cell) == cell.ok

\* pd.to_numeric(..., errors='coerce') of one cell
to_numeric(cell) == IF cell.ok THEN Num(cell.v) ELSE NaN

\* str(date): the zero-padded day
DateStr(d) == <<d \div 10, d % 10>>

\* line 77-78: groupby(['Date','Hour'])['SP'].sum().reset_index(), renamed.
\* Rows with a NaN key are dropped, NaN amounts are skipped by sum.
amazon_hourly_of(rows) ==
    LET keyed == SelectSeq(rows, LAMBDA r : r["Hour"] # NaN)
        keys == {<<keyed[i]["Date"], keyed[i]["Hour"][1]>> : i \in 1..Len(keyed)}
        order == SortedSeq(keys)
        amounts(k) == SelectSeq(keyed, LAMBDA r : /\ r["Date"] = k[1]
                                                  /\ r["Hour"][1] = k[2]
                                                  /\ r["SP"] # NaN)
    IN [n \in 1..Len(order) |->
           [date |-> order[n][1], hour_index |-> order[n][2],
            SP |-> SeqSum([i \in 1..Len(amounts(order[n])) |-> amounts(order[n])[i]["SP"][1]])]]

\* lines 73-78
ParseSales ==
    /\ pc = "parse_sales"
    /\ LET cols == amazon_df.value.columns
           rows == amazon_df.value.rows
       IN IF "Date" \notin cols
          THEN Raise("KeyError") /\ UNCHANGED <<amazon_df, amazon_hourly>>
          ELSE IF \E i \in 1..Len(rows) : ~date_parses(rows[i]["Date"])
          THEN Raise("DateParseError") /\ UNCHANGED <<amazon_df, amazon_hourly>>
          ELSE IF "Hour" \notin cols \/ "SP" \notin cols
          THEN Raise("KeyError") /\ UNCHANGED <<amazon_df, amazon_hourly>>
          ELSE LET parsed == [i \in 1..Len(rows) |->
                                 ("Date" :> rows[i]["Date"].v)
                                 @@ ("Hour" :> to_numeric(rows[i]["Hour"]))
                                 @@ ("SP" :> to_numeric(rows[i]["SP"]))]
               IN /\ amazon_df' = Some([columns |-> cols, rows |-> parsed])
                  /\ amazon_hourly' = Some(amazon_hourly_of(parsed))
                  /\ Goto("filter")
    /\ UNCHANGED <<src, df, available_metrics, campaign_column, selected_campaigns,
                   selected_dates, selected_metrics, df_filtered, combined_hourly,
                   df_grouped, delta_table, rerun, shown>>

\* the mask without the date test
df_filtered_campaign_only(frame, col, campaigns, dates) ==
    [columns |-> frame.columns,
     rows |-> SelectSeq(frame.rows, LAMBDA r : r[col] \in campaigns)]

\* lines 81-84: the boolean mask keeps the rows in their order
df_filtered_of(frame, col, campaigns, dates) ==
    [columns |-> frame.columns,
     rows |-> SelectSeq(frame.rows, LAMBDA r : r[col] \in campaigns /\ r["date"] \in dates)]

Filter ==
    /\ pc = "filter"
    /\ df_filtered' = df_filtered_of(df, campaign_column.value, selected_campaigns, selected_dates)
    /\ Goto("budget")
    /\ UNCHANGED <<src, amazon_df, amazon_hourly, df, available_metrics, campaign_column,
                   selected_campaigns, selected_dates, selected_metrics, combined_hourly,
                   df_grouped, delta_table, rerun, shown>>

\* line 88: groupby([campaign_column, 'date'])['Spend'].cumsum(), in row order
cumsum(rows, col, i) ==
    LET upto == SubSeq(rows, 1, i)
    IN ColSum(upto, "Spend",
              [j \in 1..i |-> rows[j][col] = rows[i][col] /\ rows[j]["date"] = rows[i]["date"]])

\* the operands swapped
budget_left_swapped(budget, cumulative_spend) == cumulative_spend - budget

\* line 89
budget_left_of(budget, cumulative_spend) == budget - cumulative_spend

\* line 87
budget_applies(columns) == "Spend" \in Range(columns) /\ "Budget" \in Range(columns)

\* lines 87-89
Budget ==
    /\ pc = "budget"
    /\ IF budget_applies(df.columns)
       THEN LET col == campaign_column.value
                rows == df_filtered.rows
                withcum == [i \in 1..Len(rows) |->
                               rows[i] @@ ("cumulative_spend" :> cumsum(rows, col, i))]
            IN df_filtered' =
                 [columns |-> df_filtered.columns \o <<"cumulative_spend", "budget_left">>,
                  rows |-> [i \in 1..Len(rows) |->
                              withcum[i] @@ ("budget_left" :>
                                  budget_left_of(withcum[i]["Budget"],
                                                 withcum[i]["cumulative_spend"]))]]
       ELSE UNCHANGED df_filtered
    /\ Goto("combined")
    /\ UNCHANGED <<src, amazon_df, amazon_hourly, df, available_metrics, campaign_column,
                   selected_campaigns, selected_dates, selected_metrics, combined_hourly,
                   df_grouped, delta_table, rerun, shown>>

\* line 93: groupby(['date','hour_index'])[selected_metrics].sum().reset_index()
combined_groupby(rows, metrics) ==
    LET order == SortedSeq({<<rows[i]["date"], rows[i]["hour_index"]>> : i \in 1..Len(rows)})
    IN [n \in 1..Len(order) |->
           [date |-> order[n][1], hour_index |-> order[n][2],
            metric |-> [m \in metrics |->
                ColSum(rows, m, [j \in 1..Len(rows) |->
                                    /\ rows[j]["date"] = order[n][1]
                                    /\ rows[j]["hour_index"] = order[n][2]])]]]

\* lines 93-95
Combined ==
    /\ pc = "combined"
    /\ LET grouped == combined_groupby(df_filtered.rows, selected_metrics)
           as_str == [n \in 1..Len(grouped) |->
                         [grouped[n] EXCEPT !.date = DateStr(grouped[n].date)]]
       IN combined_hourly' =
            sort_values(as_str, [n \in 1..Len(as_str) |->
                                    as_str[n].date \o <<as_str[n].hour_index>>])
    /\ Goto("merge")
    /\ UNCHANGED <<src, amazon_df, amazon_hourly, df, available_metrics, campaign_column,
                   selected_campaigns, selected_dates, selected_metrics, df_filtered,
                   df_grouped, delta_table, rerun, shown>>

\* how='inner': the rows without a match are dropped
merge_inner(left, right) ==
    Concat([i \in 1..Len(left) |->
        LET ms == SelectSeq(right, LAMBDA r : /\ r.date = left[i].date
                                              /\ r.hour_index = left[i].hour_index)
        IN [k \in 1..Len(ms) |-> left[i] @@ ("SP" :> Num(ms[k].SP))]])

\* line 100: pd.merge(left, right, on=['date','hour_index'], how='left')
merge_left(left, right) ==
    Concat([i \in 1..Len(left) |->
        LET ms == SelectSeq(right, LAMBDA r : /\ r.date = left[i].date
                                              /\ r.hour_index = left[i].hour_index)
        IN IF ms = <<>>
           THEN <<left[i] @@ ("SP" :> NaN)>>
           ELSE [k \in 1..Len(ms) |-> left[i] @@ ("SP" :> Num(ms[k].SP))]])

\* lines 98-100
Merge ==
    /\ pc = "merge"
    /\ IF amazon_hourly # None
       THEN LET as_str == [n \in 1..Len(amazon_hourly.value) |->
                              [amazon_hourly.value[n] EXCEPT
                                  !.date = DateStr(amazon_hourly.value[n].date)]]
            IN /\ amazon_hourly' = Some(as_str)
               /\ combined_hourly' = merge_left(combined_hourly, as_str)
       ELSE UNCHANGED <<amazon_hourly, combined_hourly>>
    /\ Goto("deltas")
    /\ UNCHANGED <<src, amazon_df, df, available_metrics, campaign_column,
                   selected_campaigns, selected_dates, selected_metrics, df_filtered,
                   df_grouped, delta_table, rerun, shown>>

\* Series.diff() without the groupby: the change from the row before
diff_ungrouped(values, parts, i) ==
    IF i = 1 THEN NaN ELSE Num(values[i] - values[i - 1])

\* groupby(parts)[metric].diff() of row i, from the column of values and the
\* group of each row: the change from the previous row of the same group, NaN
\* for the first row of a group
diff(values, parts, i) ==
    LET prev == {j \in 1..(i - 1) : parts[j] = parts[i]}
    IN IF prev = {} THEN NaN ELSE Num(values[i] - values[SetMax(prev)])

\* fillna(0): a zero baseline instead of the fill-back
fillna_zero(x, other) == IF x = NaN THEN Num(0) ELSE x

\* Series.fillna(other): a NaN is replaced by the value of the other series
fillna(x, other) == IF x = NaN THEN Num(other) ELSE x

\* lines 104-106
CombinedDeltas ==
    /\ pc = "deltas"
    /\ combined_hourly' =
         [i \in 1..Len(combined_hourly) |->
            combined_hourly[i] @@ ("delta" :>
               [m \in selected_metrics |->
                  fillna(diff([j \in 1..Len(combined_hourly) |-> combined_hourly[j].metric[m]],
                              [j \in 1..Len(combined_hourly) |-> combined_hourly[j].date], i),
                         combined_hourly[i].metric[m])])]
    /\ Goto("campaign_level")
    /\ UNCHANGED <<src, amazon_df, amazon_hourly, df, available_metrics, campaign_column,
                   selected_campaigns, selected_dates, selected_metrics, df_filtered,
                   df_grouped, delta_table, rerun, shown>>

\* lines 136-141, 184: groupby([campaign_column,'date','hour_index'])[...].sum()
campaign_groupby(rows, col, metrics) ==
    LET order == SortedSeq({<<CampRank(rows[i][col]), rows[i]["date"], rows[i]["hour_index"]>> :
                               i \in 1..Len(rows)})
    IN [n \in 1..Len(order) |->
           [campaign |-> CampaignPool[order[n][1]], date |-> order[n][2],
            hour_index |-> order[n][3],
            metric |-> [m \in metrics |->
                ColSum(rows, m, [j \in 1..Len(rows) |->
                                    /\ rows[j][col] = CampaignPool[order[n][1]]
                                    /\ rows[j]["date"] = order[n][2]
                                    /\ rows[j]["hour_index"] = order[n][3]])]]]

\* lines 143-145, 185-189: sort, then diff within (campaign, date) with fill-back
campaign_deltas(grouped, metrics) ==
    LET sorted == sort_values(grouped,
                      [n \in 1..Len(grouped) |->
                          <<CampRank(grouped[n].campaign), grouped[n].date,
                            grouped[n].hour_index>>])
    IN [i \in 1..Len(sorted) |->
           sorted[i] @@ ("delta" :>
              [m \in metrics |->
                 fillna(diff([j \in 1..Len(sorted) |-> sorted[j].metric[m]],
                             [j \in 1..Len(sorted) |-> <<sorted[j].campaign, sorted[j].date>>], i),
                        sorted[i].metric[m])])]

\* lines 135-148: one table per selected metric
CampaignLevel ==
    /\ pc = "campaign_level"
    /\ df_grouped' =
         [m \in selected_metrics |->
            LET t == campaign_deltas(
                        campaign_groupby(df_filtered.rows, campaign_column.value, {m}), {m})
            IN [i \in 1..Len(t) |->
                   [campaign |-> t[i].campaign, date |-> DateStr(t[i].date),
                    hour_index |-> t[i].hour_index, value |-> t[i].metric[m],
                    Delta |-> t[i].delta[m],
                    camp_date |-> <<t[i].campaign, " | ", DateStr(t[i].date)>>]]]
    /\ Goto("summary")
    /\ UNCHANGED <<src, amazon_df, amazon_hourly, df, available_metrics, campaign_column,
                   selected_campaigns, selected_dates, selected_metrics, df_filtered,
                   combined_hourly, delta_table, rerun, shown>>

\* lines 184-192
SummaryTables ==
    /\ pc = "summary"
    /\ delta_table' =
         campaign_deltas(
            campaign_groupby(df_filtered.rows, campaign_column.value, selected_metrics),
            selected_metrics)
    /\ Goto("done")
    /\ UNCHANGED <<src, amazon_df, amazon_hourly, df, available_metrics, campaign_column,
                   selected_campaigns, selected_dates, selected_metrics, df_filtered,
                   combined_hourly, df_grouped, rerun, shown>>

\* ------------------------------------------------------------------ rerun
\* a row lies outside the current selection
Outside(r) ==
    \/ r[campaign_column.value] \notin selected_campaigns
    \/ r["date"] \notin selected_dates

CellValues(col) ==
    IF col = "timestamp" THEN Timestamps
    ELSE IF col \in {"Campaign Name", "CAMPAIGN ID", "Camp"}
         THEN Range(CampaignPool)
         ELSE MetricValues

\* The campaign source changes in one cell of a record outside the selection
\* and the script runs again (lines 35-43 reload the source). The widgets
\* keep their state because their options are the same; the sales source is
\* read again.
Rerun ==
    /\ pc = "done"
    /\ ~rerun
    /\ \E i \in 1..Len(df.rows), col \in Range(src.campaign.columns) :
         \E v \in CellValues(col) :
            LET changed == [src.campaign EXCEPT !.rows[i][col] = v]
                frame == TimeFeatures(changed)
            IN /\ Outside(df.rows[i])
               /\ changed # src.campaign
               /\ Outside(frame.rows[i])
               /\ unique(frame, campaign_column.value) = unique(df, campaign_column.value)
               /\ unique(frame, "date") = unique(df, "date")
               /\ src' = [src EXCEPT !.campaign = changed]
               /\ df' = frame
    /\ amazon_df' = Some(src.sales)
    /\ amazon_hourly' = None
    /\ rerun' = TRUE
    /\ shown' = Tables
    /\ Goto("parse_sales")
    /\ UNCHANGED <<available_metrics, campaign_column, selected_campaigns, selected_dates,
                   selected_metrics, df_filtered, combined_hourly, df_grouped, delta_table>>

Next ==
    \/ LoadSales
    \/ LoadCampaign
    \/ ResolveSchema
    \/ SelectFilters
    \/ ParseSales
    \/ Filter
    \/ Budget
    \/ Combined
    \/ Merge
    \/ CombinedDeltas
    \/ CampaignLevel
    \/ SummaryTables
    \/ Rerun

Spec == Init /\ [][Next]_vars

\* ---------------------------------------------------------------- claims
Idx(t) == 1..Len(t)

AfterDeltas == pc \in {"campaign_level", "summary", "done"}
AfterCampaignLevel == pc \in {"summary", "done"}
AfterBudget == pc \in {"combined", "merge", "deltas", "campaign_level", "summary", "done"}

\* the metric m summed over the filtered records picked by a boolean mask
FilteredSum(m, mask) ==
    SetSum([j \in Idx(df_filtered.rows) |-> df_filtered.rows[j][m]],
           {j \in Idx(df_filtered.rows) : mask[j]})

\* a table given by its columns of values, deltas, partitions and hours:
\* every delta is a number; the first row of a partition carries its value, a
\* later row the change from the row before it, which is of the same
\* partition and of an earlier hour
DeltaLawOn(val, del, part, hr) ==
    \A i \in Idx(val) :
        /\ del[i] # NaN
        /\ IF \A j \in 1..(i - 1) : part[j] # part[i]
           THEN del[i] = Num(val[i])
           ELSE /\ part[i - 1] = part[i]
                /\ hr[i - 1] < hr[i]
                /\ del[i] = Num(val[i] - val[i - 1])

CombinedDeltaLaw ==
    \A m \in selected_metrics :
        /\ DeltaLawOn([i \in Idx(combined_hourly) |-> combined_hourly[i].metric[m]],
                      [i \in Idx(combined_hourly) |-> combined_hourly[i].delta[m]],
                      [i \in Idx(combined_hourly) |-> combined_hourly[i].date],
                      [i \in Idx(combined_hourly) |-> combined_hourly[i].hour_index])
        /\ \A i \in Idx(combined_hourly) :
              combined_hourly[i].metric[m] =
                 FilteredSum(m, [j \in Idx(df_filtered.rows) |->
                    /\ DateStr(df_filtered.rows[j]["date"]) = combined_hourly[i].date
                    /\ df_filtered.rows[j]["hour_index"] = combined_hourly[i].hour_index])

GroupedDeltaLaw ==
    \A m \in selected_metrics :
        /\ DeltaLawOn([i \in Idx(df_grouped[m]) |-> df_grouped[m][i].value],
                      [i \in Idx(df_grouped[m]) |-> df_grouped[m][i].Delta],
                      [i \in Idx(df_grouped[m]) |->
                          <<df_grouped[m][i].campaign, df_grouped[m][i].date>>],
                      [i \in Idx(df_grouped[m]) |-> df_grouped[m][i].hour_index])
        /\ \A i \in Idx(df_grouped[m]) :
              df_grouped[m][i].value =
                 FilteredSum(m, [j \in Idx(df_filtered.rows) |->
                    /\ df_filtered.rows[j][campaign_column.value] = df_grouped[m][i].campaign
                    /\ DateStr(df_filtered.rows[j]["date"]) = df_grouped[m][i].date
                    /\ df_filtered.rows[j]["hour_index"] = df_grouped[m][i].hour_index])

TableDeltaLaw ==
    \A m \in selected_metrics :
        /\ DeltaLawOn([i \in Idx(delta_table) |-> delta_table[i].metric[m]],
                      [i \in Idx(delta_table) |-> delta_table[i].delta[m]],
                      [i \in Idx(delta_table) |->
                          <<delta_table[i].campaign, delta_table[i].date>>],
                      [i \in Idx(delta_table) |-> delta_table[i].hour_index])
        /\ \A i \in Idx(delta_table) :
              delta_table[i].metric[m] =
                 FilteredSum(m, [j \in Idx(df_filtered.rows) |->
                    /\ df_filtered.rows[j][campaign_column.value] = delta_table[i].campaign
                    /\ df_filtered.rows[j]["date"] = delta_table[i].date
                    /\ df_filtered.rows[j]["hour_index"] = delta_table[i].hour_index])

\* C1: in the combined view (partition: date) and in the per-campaign views
\* (partition: campaign, date), rows of a partition come in ascending
\* hour_index order, the delta of the first row of a partition is that row's
\* aggregated value, the delta of a later row is value[i] - value[i-1], the
\* value is the metric summed over the filtered records of that partition and
\* hour, and no delta is null.
C1_DeltaLaw ==
    /\ AfterDeltas => CombinedDeltaLaw
    /\ AfterCampaignLevel => GroupedDeltaLaw
    /\ pc = "done" => TableDeltaLaw

C1_Witness ==
    /\ pc = "done"
    /\ "Spend" \in selected_metrics
    /\ \E i \in 2..Len(combined_hourly) :
          /\ combined_hourly[i].date = combined_hourly[i - 1].date
          /\ combined_hourly[i].delta["Spend"] # Num(combined_hourly[i].metric["Spend"])
    /\ \E i \in 2..Len(delta_table) :
          /\ delta_table[i].campaign = delta_table[i - 1].campaign
          /\ delta_table[i].date = delta_table[i - 1].date
          /\ delta_table[i].delta["Spend"] # Num(delta_table[i].metric["Spend"])

\* C2: with Spend and Budget present, cumulative_spend of a record is the sum
\* of Spend over the records of its (campaign, date) partition that come at
\* or before it when the partition is sorted by hour_index ascending (records
\* of one hour in their input order), for every input row order.
C2_CumulativeSpendByHour ==
    "cumulative_spend" \in Range(df_filtered.columns) =>
        \A i \in Idx(df_filtered.rows) :
            LET r == df_filtered.rows[i]
            IN r["cumulative_spend"] =
                 SetSum([j \in Idx(df_filtered.rows) |-> df_filtered.rows[j]["Spend"]],
                        {j \in Idx(df_filtered.rows) :
                            /\ df_filtered.rows[j][campaign_column.value] = r[campaign_column.value]
                            /\ df_filtered.rows[j]["date"] = r["date"]
                            /\ \/ df_filtered.rows[j]["hour_index"] < r["hour_index"]
                               \/ /\ df_filtered.rows[j]["hour_index"] = r["hour_index"]
                                  /\ j <= i})

\* the merged table holds the rows of the left table, one each and in order,
\* with the amount of the sales aggregate's row of the same key, or null
LeftComplete(left, merged, right) ==
    /\ Len(merged) = Len(left)
    /\ \A i \in Idx(left) :
          /\ merged[i].date = left[i].date
          /\ merged[i].hour_index = left[i].hour_index
          /\ merged[i].metric = left[i].metric
          /\ LET ms == {k \in Idx(right) : /\ right[k].date = left[i].date
                                           /\ right[k].hour_index = left[i].hour_index}
             IN IF ms = {} THEN merged[i]["SP"] = NaN
                ELSE \E k \in ms : merged[i]["SP"] = Num(right[k].SP)

\* C3: the merge step keeps every combined aggregate row exactly once, in
\* order, with its metric values, and gives it a null SP when the sales
\* aggregate has no row for its (date, hour_index), whatever the sales feed
\* holds.
C3_LeftComplete ==
    [][pc = "merge" => LeftComplete(combined_hourly, combined_hourly', amazon_hourly'.value)]_vars

C3_Witness ==
    /\ pc = "deltas"
    /\ \E i, j \in Idx(src.sales.rows) :
          /\ i # j
          /\ src.sales.rows[i]["Date"] = src.sales.rows[j]["Date"]
          /\ src.sales.rows[i]["Hour"] = src.sales.rows[j]["Hour"]
    /\ \E i \in Idx(combined_hourly) : combined_hourly[i]["SP"] = NaN
    /\ \E i \in Idx(combined_hourly) : combined_hourly[i]["SP"] # NaN

\* C4: no row of an output table has a campaign or a date outside the
\* selection, and a run on a source that differs only in a record outside the
\* selection ends with the tables of the run before.
C4_FilterConsistent ==
    /\ \A i \in Idx(df_filtered.rows) :
          /\ df_filtered.rows[i][campaign_column.value] \in selected_campaigns
          /\ df_filtered.rows[i]["date"] \in selected_dates
    /\ \A i \in Idx(combined_hourly) :
          combined_hourly[i].date \in {DateStr(d) : d \in selected_dates}
    /\ \A m \in DOMAIN df_grouped : \A i \in Idx(df_grouped[m]) :
          /\ df_grouped[m][i].campaign \in selected_campaigns
          /\ df_grouped[m][i].date \in {DateStr(d) : d \in selected_dates}
    /\ \A i \in Idx(delta_table) :
          /\ delta_table[i].campaign \in selected_campaigns
          /\ delta_table[i].date \in selected_dates
    /\ (rerun /\ pc = "done") => Tables = shown

C4_Witness ==
    /\ rerun
    /\ pc = "done"
    /\ Len(delta_table) > 0
    /\ Len(df.rows) > Len(df_filtered.rows)

\* C5: a failure of the sales source (no upload and a failed fetch, or a
\* missing Date, Hour or SP column) never stops the script.
C5_SalesOptional ==
    ~(pc = "aborted" /\ exception \in {"URLError", "ValueError", "KeyError"})

\* C6: an unparsable Date, Hour or SP value never stops the load, and the
\* sales rows with a parsable key are aggregated by (date, hour_index), the
\* unparsable amounts left out.
C6_ParseRecovered ==
    /\ exception # "DateParseError"
    /\ pc = "filter" =>
          \A i \in Idx(src.sales.rows) :
             LET r == src.sales.rows[i]
             IN (r["Date"].ok /\ r["Hour"].ok) =>
                  \E k \in Idx(amazon_hourly.value) :
                     /\ amazon_hourly.value[k].date = r["Date"].v
                     /\ amazon_hourly.value[k].hour_index = r["Hour"].v
                     /\ amazon_hourly.value[k].SP =
                          SetSum([j \in Idx(src.sales.rows) |-> src.sales.rows[j]["SP"].v],
                                 {j \in Idx(src.sales.rows) :
                                     /\ src.sales.rows[j]["Date"] = r["Date"]
                                     /\ src.sales.rows[j]["Hour"] = r["Hour"]
                                     /\ src.sales.rows[j]["SP"].ok})

SchemaResolved == pc \notin {"load_sales", "load_campaign", "resolve"} /\ df # NoFrame

AggregatedMetrics ==
    UNION {DOMAIN combined_hourly[i].metric : i \in Idx(combined_hourly)}
    \cup DOMAIN df_grouped
    \cup UNION {DOMAIN delta_table[i].metric : i \in Idx(delta_table)}

\* C7 as stated: available_metrics is the intersection of the catalog that
\* includes ACOS with the source's columns.
C7_CatalogWithACOS ==
    SchemaResolved =>
        Range(available_metrics) =
            {"Spend", "Impressions", "Clicks", "CTR", "Orders", "Sales", "ACOS",
             "ROAS", "CPC", "NTB orders", "vCTR"} \cap Range(src.campaign.columns)

\* C7 amended: available_metrics is the intersection of the catalog {Spend,
\* Impressions, Clicks, CTR, Orders, Sales, ROAS, CPC, NTB orders, vCTR} with
\* the source's columns, and the selected and the aggregated metrics are
\* among the available ones.
C7_AvailableMetrics ==
    /\ SchemaResolved =>
          Range(available_metrics) =
              {"Spend", "Impressions", "Clicks", "CTR", "Orders", "Sales",
               "ROAS", "CPC", "NTB orders", "vCTR"} \cap Range(src.campaign.columns)
    /\ selected_metrics \subseteq Range(available_metrics)
    /\ AggregatedMetrics \subseteq Range(available_metrics)
    /\ AggregatedMetrics \subseteq Range(src.campaign.columns)

C7_Witness ==
    /\ pc = "done"
    /\ "ACOS" \in Range(src.campaign.columns)
    /\ "Clicks" \notin Range(src.campaign.columns)
    /\ AggregatedMetrics = {"Spend"}

TelescopesOn(val, del, part) ==
    \A i \in Idx(val) :
        SetSum([j \in Idx(val) |-> IF del[j] = NaN THEN 0 ELSE del[j][1]],
               {j \in 1..i : part[j] = part[i]}) = val[i]

NamesCampaignOf ==
    [col \in ColumnPool \cup {"timestamp", "date", "hour_index"} |->
        Contains(<<"c","a","m","p","a","i","g","n">>, lower(Chars(col)))]

NamesCampaign(col) == NamesCampaignOf[col]

\* C10: the campaign column is the first column, in column order, whose name
\* contains "campaign" case-insensitively; without such a column the script
\* stops with an error before it filters or aggregates anything.
C10_CampaignColumn ==
    /\ campaign_column # None =>
          \E i \in Idx(df.columns) :
             /\ df.columns[i] = campaign_column.value
             /\ NamesCampaign(df.columns[i])
             /\ \A j \in 1..(i - 1) : ~NamesCampaign(df.columns[j])
    /\ SchemaResolved =>
          IF \E i \in Idx(df.columns) : NamesCampaign(df.columns[i])
          THEN campaign_column # None /\ exception # "IndexError"
          ELSE /\ pc = "aborted"
               /\ exception = "IndexError"
               /\ campaign_column = None
               /\ amazon_hourly = None
               /\ Tables = <<NoFrame, <<>>, <<>>, <<>>>>

C10_Witness ==
    /\ pc = "done"
    /\ campaign_column.value = "CAMPAIGN ID"
    /\ \E i, j \in Idx(df.columns) :
          /\ i < j
          /\ df.columns[i] = "CAMPAIGN ID"
          /\ df.columns[j] = "Campaign Name"
    /\ Len(delta_table) > 0

====
